---- MODULE Spec2Model ----
(***************************************************************************)
(* A model of cloclify, the command-line client for Clockify.              *)
(*                                                                         *)
(* Strings are modelled as sequences of lexical pieces (TLA+ strings), so  *)
(* that arg[0], arg[1:], str.split and str + str are operations on the     *)
(* text and not identities.  Optional values are sequences of length 0     *)
(* (None) or 1.  Dates are day numbers (day 0 is the first day of the      *)
(* month of the model calendar), times of day are seconds since midnight,  *)
(* zone offsets are seconds east of UTC.                                   *)
(***************************************************************************)
EXTENDS Integers, Sequences, FiniteSets, TLC

VARIABLES
    args,        \* parsed.inputs: the positional tokens of the invocation
    dumpArg,     \* parsed.dump: the --dump option, None or a month string
    conkyArg,    \* parsed.conky
    hostOff,     \* UTC offset of the host machine's local zone
    pc,          \* position of the run
    parser,      \* the ArgumentParser object
    client,      \* the ClockifyClient object
    idx,         \* add_entries: index of the entry the loop is at
    added,       \* add_entries: added_ids
    requests,    \* every HTTP request issued, in order
    committed,   \* the mutation requests the server answered with success
    exit,        \* outcome of main: "" while running, "0", "1", "uncaught"
    error,       \* message of the exception that ended the run
    cdt,         \* codec: the datetime handed to to_iso_timestamp
    czone,       \* codec: the viewer zone handed to from_iso_timestamp
    cwire,       \* codec: the timestamp string on the wire
    cback,       \* codec: the datetime from_iso_timestamp returned
    sentry,      \* Entry: the entry handed to serialize
    sdata,       \* Entry: what serialize returned
    record,      \* Entry: the time-entry record handed to deserialize
    dentry       \* Entry: what deserialize returned

runVars   == <<args, dumpArg, conkyArg, hostOff, pc, parser, client, idx,
               added, requests, committed, exit, error>>
codecVars == <<cdt, czone, cwire, cback>>
entryVars == <<sentry, sdata, record, dentry>>
vars      == <<args, dumpArg, conkyArg, hostOff, pc, parser, client, idx,
               added, requests, committed, exit, error, cdt, czone, cwire,
               cback, sentry, sdata, record, dentry>>

---------------------------------------------------------------------------
(* Bounds of the model *)

\* longest token sequence of a whole run
MaxArgs == 3
\* longest token sequence handed to the parser alone
MaxTokens == 3
\* longest tag list of an entry or of a record
MaxTags == 2
\* longest token sequence of a run checked for termination
MaxLiveArgs == 2

---------------------------------------------------------------------------
(* Basic values *)

None == <<>>
Some(x) == <<x>>

\* a datetime is [d, t, us, tz]: tz is None for a naive datetime, or the
\* UTC offset of an aware one; a time is [t, us]

DaySecs == 86400

\* datetime.datetime.now(): the host clock, in host local time
Today == 10
NowSecs == 36000
NowMicros == 250000
Now == [d |-> Today, t |-> NowSecs, us |-> NowMicros, tz |-> None]

\* datetime.time(): midnight
Midnight == [t |-> 0, us |-> 0]

\* datetime.datetime.combine(date, time)
Combine(date, time) ==
    [d |-> date, t |-> time.t, us |-> time.us, tz |-> None]

---------------------------------------------------------------------------
(* The token alphabet of the invocations explored *)

Sigils == {"+", "@", "$", ".", "^"}

\* strings that match time_pattern, r"(\d\d?:\d\d?|/|now)"
TimePattern == {"9:00", "17:00", "9:75", "/", "now"}

\* the tokens handed to the parser alone; <<>> is the empty string
ParseTokens == { <<"9:00", "-", "17:00">>, <<"17:00", "-", "9:00">>,
                 <<"/", "-", "17:00">>, <<"/", "-", "/">>,
                 <<"9:75", "-", "/">>, <<"start">>, <<"stop">>,
                 <<"+", "urgent">>, <<"+", "late">>, <<"+", "stop">>,
                 <<"@", "work">>, <<"@">>, <<"$">>, <<"$", "x">>,
                 <<".", "today">>, <<".", "yesterday">>, <<"^", "ws">>,
                 <<"foo">>, <<"bar">>, <<>> }

\* the tokens of the whole-run specification
RunTokens == { <<"stop">>, <<"9:00", "-", "17:00">>,
               <<"17:00", "-", "9:00">>, <<"+", "urgent">>, <<"+", "zzz">>,
               <<"@", "work">>, <<"@", "nope">>, <<".", "yesterday">>,
               <<"^", "other">>, <<>> }

SeqsUpTo(S, n) == UNION { [1..k -> S] : k \in 0..n }

DumpArgs == { None, Some("2020-10"), Some("bogus") }

\* the --dump options handed to the parser alone
ParseDumpArgs == DumpArgs \cup { Some("2020-1") }

---------------------------------------------------------------------------
(* parser.py: ArgumentParser *)

\* ArgumentParser.__init__
ParserInit ==
    [ _timespans |-> <<>>, _description |-> <<>>, _billable |-> FALSE,
      date |-> Now.d, entries |-> <<>>, dump |-> None, tags |-> <<>>,
      project |-> None, workspace |-> None, conky |-> FALSE,
      raised |-> "" ]

Raise(p, msg) == [p EXCEPT !.raised = msg]

\* datetime.datetime.strptime(time_str, "%H:%M").time(); None is ValueError
StrptimeHM(s) ==
    CASE s = "9:00"  -> Some([t |-> 9 * 3600, us |-> 0])
      [] s = "17:00" -> Some([t |-> 17 * 3600, us |-> 0])
      [] OTHER       -> None

\* _parse_time: [raised |-> message or "", val |-> Optional[time]]
_parse_time(p, time_str) ==
    IF time_str = "now"
    THEN IF p.date # Now.d
         THEN [raised |-> "Can't combine 'now' with different date",
               val |-> None]
         ELSE [raised |-> "", val |-> Some([t |-> Now.t, us |-> Now.us])]
    ELSE IF time_str = "/"
    THEN [raised |-> "", val |-> None]
    ELSE IF StrptimeHM(time_str) = None
         THEN [raised |-> "strptime ValueError", val |-> None]
         ELSE [raised |-> "", val |-> StrptimeHM(time_str)]

\* arg.split("-"): the pieces between the "-" separators
SplitDash(arg) == SelectSeq(arg, LAMBDA x : x # "-")

\* _parse_timespan without the check that one side is given
_parse_timespan_Unchecked(p, arg) ==
    LET parts == SplitDash(arg)
        st == _parse_time(p, parts[1])
        en == _parse_time(p, parts[2]) IN
    IF st.raised # "" THEN Raise(p, st.raised)
    ELSE IF en.raised # "" THEN Raise(p, en.raised)
    ELSE [p EXCEPT !._timespans = Append(@, <<st.val, en.val>>)]

\* _parse_timespan
_parse_timespan(p, arg) ==
    LET parts == SplitDash(arg) IN
    IF Len(parts) # 2 THEN Raise(p, "Couldn't parse timespan")
    ELSE
    LET st == _parse_time(p, parts[1]) IN
    IF st.raised # "" THEN Raise(p, st.raised)
    ELSE
    LET en == _parse_time(p, parts[2]) IN
    IF en.raised # "" THEN Raise(p, en.raised)
    ELSE IF st.val = None /\ en.val = None
    THEN Raise(p, "Either start or end time needs to be given")
    ELSE [p EXCEPT !._timespans = Append(@, <<st.val, en.val>>)]

\* dateparser.parse(arg, settings={"RELATIVE_BASE": midnight})
dateparser_parse(arg, base) ==
    CASE arg = "today"         -> Some(base)
      [] arg = "yesterday"     -> Some([base EXCEPT !.d = @ - 1])
      [] arg = "yesterday 5pm" -> Some([base EXCEPT !.d = @ - 1,
                                                    !.t = 17 * 3600])
      [] OTHER                 -> None

\* _parse_date
_parse_date(p, arg) ==
    IF p.date # Now.d THEN Raise(p, "Multiple dates")
    ELSE
    LET midnight == Combine(Now.d, Midnight)
        parsed == dateparser_parse(arg, midnight) IN
    IF parsed = None THEN Raise(p, "Couldn't parse date")
    ELSE IF [t |-> parsed[1].t, us |-> parsed[1].us] # Midnight
    THEN Raise(p, "Date contains unexpected time")
    ELSE [p EXCEPT !.date = parsed[1].d]

\* _parse_description that keeps only the last word
_parse_description_Overwrite(p, arg) == [p EXCEPT !._description = arg]

\* _parse_description
_parse_description(p, arg) ==
    IF p._description # <<>>
    THEN [p EXCEPT !._description = @ \o <<" ">> \o arg]
    ELSE [p EXCEPT !._description = arg]

\* _parse_project
_parse_project(p, arg) == [p EXCEPT !.project = Some(arg)]

\* _parse_tag
_parse_tag(p, arg) == [p EXCEPT !.tags = Append(@, arg)]

\* _parse_workspace
_parse_workspace(p, arg) ==
    IF p.workspace # None THEN Raise(p, "Multiple workspaces")
    ELSE [p EXCEPT !.workspace = Some(arg)]

\* _parse_billable
_parse_billable(p, arg) ==
    IF arg # "" THEN Raise(p, "Invalid billable arg")
    ELSE [p EXCEPT !._billable = TRUE]

\* timespan_re.fullmatch(arg)
timespan_re_fullmatch(arg) ==
    /\ Len(arg) = 3
    /\ arg[2] = "-"
    /\ arg[1] \in TimePattern
    /\ arg[3] \in TimePattern

\* arg[0] when it is one of the sigils, arg[1:] the text after it; arg[0]
\* of the empty string is an IndexError
FirstChar(arg) == IF arg[1] \in Sigils THEN arg[1] ELSE "other"
Rest(arg) == IF Len(arg) > 1 THEN arg[2] ELSE ""

\* one iteration of the loop over parsed.inputs
ParseArg(p, arg) ==
    IF timespan_re_fullmatch(arg) THEN _parse_timespan(p, arg)
    ELSE IF arg = <<>> THEN Raise(p, "IndexError")
    ELSE IF FirstChar(arg) = "+" THEN _parse_tag(p, Rest(arg))
    ELSE IF FirstChar(arg) = "@" THEN _parse_project(p, Rest(arg))
    ELSE IF FirstChar(arg) = "$" THEN _parse_billable(p, Rest(arg))
    ELSE IF FirstChar(arg) = "." THEN _parse_date(p, Rest(arg))
    ELSE IF FirstChar(arg) = "^" THEN _parse_workspace(p, Rest(arg))
    ELSE IF arg = <<"start">> THEN _parse_timespan(p, <<"now", "-", "/">>)
    ELSE IF arg = <<"stop">> THEN _parse_timespan(p, <<"/", "-", "now">>)
    ELSE _parse_description(p, arg)

\* the loop over parsed.inputs; an exception ends it
RECURSIVE ParseLoop(_, _)
ParseLoop(p, inputs) ==
    IF inputs = <<>> \/ p.raised # "" THEN p
    ELSE ParseLoop(ParseArg(p, Head(inputs)), Tail(inputs))

\* _combine_date that combines with the date of the host clock
_combine_date_Today(p, time) ==
    IF time = None THEN None ELSE Some(Combine(Now.d, time[1]))

\* _combine_date
_combine_date(p, time) ==
    IF time = None THEN None ELSE Some(Combine(p.date, time[1]))

\* NewEntry that moves an end earlier than the start to the next day
NewEntry_Rollover(p, span) ==
    LET st == _combine_date(p, span[1])
        en == _combine_date(p, span[2]) IN
    [ start |-> st,
      end |-> IF st # None /\ en # None /\ en[1].t < st[1].t
              THEN Some([en[1] EXCEPT !.d = @ + 1]) ELSE en,
      description |-> Some(p._description),
      billable |-> p._billable,
      project |-> p.project,
      project_color |-> None,
      tags |-> <<>>,
      eid |-> None ]

\* client.Entry(start=, end=, description=, billable=, project=)
NewEntry(p, span) ==
    [ start |-> _combine_date(p, span[1]),
      end |-> _combine_date(p, span[2]),
      description |-> Some(p._description),
      billable |-> p._billable,
      project |-> p.project,
      project_color |-> None,
      tags |-> <<>>,
      eid |-> None ]

\* the list comprehension building self.entries
BuildEntries(p) ==
    [p EXCEPT !.entries = [i \in 1..Len(p._timespans) |->
                               NewEntry(p, p._timespans[i])]]

\* datetime.datetime.strptime(parsed.dump, "%Y-%m"); None is ValueError
\* %m reads a month of one digit as well: "2020-1" is January 2020, whose
\* first day is 274 days before the first of October
StrptimeYM(s) ==
    IF s = "2020-10" THEN Some([d |-> 0, t |-> 0, us |-> 0, tz |-> None])
    ELSE IF s = "2020-1"
    THEN Some([d |-> 0 - 274, t |-> 0, us |-> 0, tz |-> None])
    ELSE None

\* if parsed.dump: ... self.dump = strptime(...)
ParseDump(p, dump) ==
    IF dump = None THEN p
    ELSE IF StrptimeYM(dump[1]) = None THEN Raise(p, "Unparseable month")
    ELSE [p EXCEPT !.dump = StrptimeYM(dump[1])]

has_new_entries(p) == \E i \in 1..Len(p.entries) : p.entries[i].start # None

\* the cross-field checks without the one on the tags
CheckNewEntries_NoTags(p) ==
    IF ~has_new_entries(p)
    THEN IF p._description # <<>>
         THEN Raise(p, "Description given without new entries")
         ELSE IF p._billable
         THEN Raise(p, "Billable given without new entries")
         ELSE IF p.project # None /\ p.project # Some("")
         THEN Raise(p, "Project given without new entries")
         ELSE p
    ELSE p

\* the cross-field checks after the entries are built
CheckNewEntries(p) ==
    IF ~has_new_entries(p)
    THEN IF p._description # <<>>
         THEN Raise(p, "Description given without new entries")
         ELSE IF p._billable
         THEN Raise(p, "Billable given without new entries")
         ELSE IF p.project # None /\ p.project # Some("")
         THEN Raise(p, "Project given without new entries")
         ELSE IF p.tags # <<>>
         THEN Raise(p, "Tags given without new entries")
         ELSE p
    ELSE p

\* if parsed.dump and self.date != now.date()
CheckDumpDate(p, dump) ==
    IF dump # None /\ p.date # Now.d THEN Raise(p, "Date given with --dump")
    ELSE p

\* ArgumentParser.parse
parse(p0, inputs, dump, conky) ==
    LET p1 == ParseLoop([p0 EXCEPT !.conky = conky], inputs) IN
    IF p1.raised # "" THEN p1
    ELSE
    LET p2 == ParseDump(BuildEntries(p1), dump) IN
    IF p2.raised # "" THEN p2
    ELSE
    LET p3 == CheckNewEntries(p2) IN
    IF p3.raised # "" THEN p3
    ELSE CheckDumpDate(p3, dump)

---------------------------------------------------------------------------
(* utils.py: the timestamp codec *)

\* dateutil.tz.UTC
UTC == 0

\* the zones of the explored hosts and of the explored user profiles
HostZones == {-18000, 3600}
UserZones == {-25200, 0, 7200}

\* the instant of a datetime, in seconds since day 0 00:00 UTC; a naive
\* datetime is taken to be in the host's local zone
Instant(dt) ==
    dt.d * DaySecs + dt.t - (IF dt.tz = None THEN hostOff ELSE dt.tz[1])

\* datetime.astimezone(timezone)
astimezone(dt, timezone) ==
    LET local == Instant(dt) + timezone IN
    [d |-> local \div DaySecs, t |-> local % DaySecs, us |-> dt.us,
     tz |-> Some(timezone)]

Abs(n) == IF n < 0 THEN 0 - n ELSE n

\* datetime.isoformat(): YYYY-MM-DDTHH:MM:SS[.ffffff][+HH:MM], as pieces
isoformat(dt) ==
    <<[k |-> "YYYY-MM-DDTHH:MM:SS", v |-> dt.d * DaySecs + dt.t]>>
    \o (IF dt.us # 0 THEN <<[k |-> ".ffffff", v |-> dt.us]>> ELSE <<>>)
    \o (IF dt.tz = None THEN <<>>
        ELSE <<[k |-> IF dt.tz[1] >= 0 THEN "+" ELSE "-", v |-> 0],
               [k |-> "HH:MM", v |-> Abs(dt.tz[1]) \div 60]>>)

\* str.split("+")[0]: the text before the first "+"
RECURSIVE SplitPlusFirst(_)
SplitPlusFirst(s) ==
    IF s = <<>> \/ Head(s).k = "+" THEN <<>>
    ELSE <<Head(s)>> \o SplitPlusFirst(Tail(s))

ZSuffix == [k |-> "Z", v |-> 0]

\* to_iso_timestamp that formats the datetime without converting it
to_iso_timestamp_NoConvert(dt, timezone) ==
    SplitPlusFirst(isoformat(dt)) \o <<ZSuffix>>

\* to_iso_timestamp(dt, *, timezone=dateutil.tz.UTC)
to_iso_timestamp(dt, timezone) ==
    SplitPlusFirst(isoformat(astimezone(dt, timezone))) \o <<ZSuffix>>

\* dateutil.parser.isoparse(timestamp); None is ValueError
isoparse(s) ==
    IF s = <<>> \/ s[1].k # "YYYY-MM-DDTHH:MM:SS" THEN None
    ELSE
    LET hasFrac == Len(s) >= 2 /\ s[2].k = ".ffffff"
        us == IF hasFrac THEN s[2].v ELSE 0
        zone == SubSeq(s, IF hasFrac THEN 3 ELSE 2, Len(s))
        dt(tz) == [d |-> s[1].v \div DaySecs, t |-> s[1].v % DaySecs,
                   us |-> us, tz |-> tz] IN
    IF zone = <<>> THEN Some(dt(None))
    ELSE IF zone = <<ZSuffix>> THEN Some(dt(Some(UTC)))
    ELSE IF Len(zone) = 2 /\ zone[1].k = "+" /\ zone[2].k = "HH:MM"
    THEN Some(dt(Some(zone[2].v * 60)))
    ELSE IF Len(zone) = 2 /\ zone[1].k = "-" /\ zone[2].k = "HH:MM"
    THEN Some(dt(Some(0 - zone[2].v * 60)))
    ELSE None

\* from_iso_timestamp(timestamp, timezone); None is isoparse's ValueError
from_iso_timestamp(timestamp, timezone) ==
    LET utc == isoparse(timestamp) IN
    IF utc = None THEN None ELSE Some(astimezone(utc[1], timezone))

---------------------------------------------------------------------------
(* client.py: Entry *)

NoData == [ start |-> None, end |-> None, description |-> None,
            billable |-> None, projectId |-> None, tagIds |-> None ]

\* [tags[tag]["id"] for tag in self.tags]; None is KeyError
TagIds(tagNames, tags) ==
    IF \E i \in 1..Len(tagNames) : tagNames[i] \notin DOMAIN tags THEN None
    ELSE Some([i \in 1..Len(tagNames) |-> tags[tagNames[i]].id])

\* serialize whose close-out shape also carries the billable flag
serialize_CloseOutBillable(e, projects, tags) ==
    IF e.start = None
    THEN IF e.end = None
         THEN [raised |-> "AssertionError", data |-> NoData]
         ELSE [raised |-> "",
               data |-> [NoData EXCEPT
                   !.end = Some(to_iso_timestamp(e.end[1], UTC)),
                   !.billable = Some(e.billable)]]
    ELSE IF e.project # None /\ e.project[1] \notin DOMAIN projects
    THEN [raised |-> "KeyError", data |-> NoData]
    ELSE IF TagIds(e.tags, tags) = None
    THEN [raised |-> "KeyError", data |-> NoData]
    ELSE [raised |-> "",
          data |-> [ start |-> Some(to_iso_timestamp(e.start[1], UTC)),
                     end |-> IF e.end # None
                             THEN Some(to_iso_timestamp(e.end[1], UTC))
                             ELSE None,
                     description |-> e.description,
                     billable |-> Some(e.billable),
                     projectId |-> IF e.project # None
                                   THEN Some(projects[e.project[1]].id)
                                   ELSE None,
                     tagIds |-> TagIds(e.tags, tags) ]]

\* Entry.serialize: [raised |-> exception or "", data |-> the dict, a
\* record whose absent keys are None]
serialize(e, projects, tags) ==
    IF e.start = None
    THEN IF e.end = None
         THEN [raised |-> "AssertionError", data |-> NoData]
         ELSE [raised |-> "",
               data |-> [NoData EXCEPT
                   !.end = Some(to_iso_timestamp(e.end[1], UTC))]]
    ELSE IF e.project # None /\ e.project[1] \notin DOMAIN projects
    THEN [raised |-> "KeyError", data |-> NoData]
    ELSE IF TagIds(e.tags, tags) = None
    THEN [raised |-> "KeyError", data |-> NoData]
    ELSE [raised |-> "",
          data |-> [ start |-> Some(to_iso_timestamp(e.start[1], UTC)),
                     end |-> IF e.end # None
                             THEN Some(to_iso_timestamp(e.end[1], UTC))
                             ELSE None,
                     description |-> e.description,
                     billable |-> Some(e.billable),
                     projectId |-> IF e.project # None
                                   THEN Some(projects[e.project[1]].id)
                                   ELSE None,
                     tagIds |-> TagIds(e.tags, tags) ]]

\* Entry(): the defaults of the dataclass
EntryDefault ==
    [ start |-> None, end |-> None, description |-> None,
      billable |-> FALSE, project |-> None, project_color |-> None,
      tags |-> <<>>, eid |-> None ]

\* deserialize that drops the colour of the project
deserialize_NoColor(data, projects, tags, user_tz) ==
    LET start == from_iso_timestamp(data.timeInterval.start, user_tz)
        end == IF data.timeInterval.end = None THEN None
               ELSE from_iso_timestamp(data.timeInterval.end[1], user_tz) IN
    IF start = None \/ (data.timeInterval.end # None /\ end = None)
    THEN [raised |-> "ValueError", entry |-> EntryDefault]
    ELSE IF data.projectId # None /\ data.projectId[1] \notin DOMAIN projects
    THEN [raised |-> "KeyError", entry |-> EntryDefault]
    ELSE IF /\ data.tagIds # None
            /\ \E i \in 1..Len(data.tagIds[1]) :
                  data.tagIds[1][i] \notin DOMAIN tags
    THEN [raised |-> "KeyError", entry |-> EntryDefault]
    ELSE [raised |-> "",
          entry |-> [ start |-> start, end |-> end,
                      description |-> Some(data.description),
                      billable |-> data.billable,
                      project |-> IF data.projectId = None THEN None
                                  ELSE Some(projects[data.projectId[1]].name),
                      project_color |-> None,
                      tags |-> IF data.tagIds = None THEN <<>>
                               ELSE [i \in 1..Len(data.tagIds[1]) |->
                                        tags[data.tagIds[1][i]].name],
                      eid |-> Some(data.id) ]]

\* Entry.deserialize: [raised |-> exception or "", entry |-> the Entry]
deserialize(data, projects, tags, user_tz) ==
    LET start == from_iso_timestamp(data.timeInterval.start, user_tz)
        end == IF data.timeInterval.end = None THEN None
               ELSE from_iso_timestamp(data.timeInterval.end[1], user_tz) IN
    IF start = None \/ (data.timeInterval.end # None /\ end = None)
    THEN [raised |-> "ValueError", entry |-> EntryDefault]
    ELSE IF data.projectId # None /\ data.projectId[1] \notin DOMAIN projects
    THEN [raised |-> "KeyError", entry |-> EntryDefault]
    ELSE IF /\ data.tagIds # None
            /\ \E i \in 1..Len(data.tagIds[1]) :
                  data.tagIds[1][i] \notin DOMAIN tags
    THEN [raised |-> "KeyError", entry |-> EntryDefault]
    ELSE [raised |-> "",
          entry |-> [ start |-> start, end |-> end,
                      description |-> Some(data.description),
                      billable |-> data.billable,
                      project |-> IF data.projectId = None THEN None
                                  ELSE Some(projects[data.projectId[1]].name),
                      project_color |->
                          IF data.projectId = None THEN None
                          ELSE Some(projects[data.projectId[1]].color),
                      tags |-> IF data.tagIds = None THEN <<>>
                               ELSE [i \in 1..Len(data.tagIds[1]) |->
                                        tags[data.tagIds[1][i]].name],
                      eid |-> Some(data.id) ]]

---------------------------------------------------------------------------
(* The remote service and the process environment *)

\* what the service holds for the account
ServerWorkspaces == << [id |-> "w1", name |-> "ws"] >>
ServerProjects == << [id |-> "p1", name |-> "work", color |-> "red"],
                    [id |-> "p2", name |-> "play", color |-> "blue"] >>
ServerTags == << [id |-> "t1", name |-> "urgent"],
                 [id |-> "t2", name |-> "late"] >>

\* outcome of one HTTP exchange: response.ok, not response.ok, or
\* requests.exceptions.ConnectionError
Outcomes == {"ok", "not ok", "ConnectionError"}

\* os.environ: CLOCKIFY_API_KEY set or not, CLOCKIFY_WORKSPACE or None
Environs == [key : BOOLEAN, workspace : {None, Some("ws")}]

Request(verb, path, data) == [verb |-> verb, path |-> path, data |-> data]

---------------------------------------------------------------------------
(* client.py: ClockifyClient *)

ClientNone ==
    [ _workspace_name |-> None, _workspace_id |-> None, _user_id |-> None,
      _user_tz |-> None, _projects_by_name |-> <<>>,
      _projects_by_id |-> <<>>, _tags_by_name |-> <<>>,
      _tags_by_id |-> <<>> ]

\* the dict a loop "for r in records: d[r[key]] = r" builds
IndexBy(records, key) ==
    [x \in {records[i][key] : i \in 1..Len(records)} |->
        records[CHOOSE i \in 1..Len(records) :
                    /\ records[i][key] = x
                    /\ \A j \in (i+1)..Len(records) : records[j][key] # x]]

\* validate that looks at the project only
validate_ProjectOnly(c, tags, project) ==
    IF project # None /\ project[1] \notin DOMAIN c._projects_by_name
    THEN "Unknown project"
    ELSE ""

\* ClockifyClient.validate: the message raised, or ""
validate(c, tags, project) ==
    IF \E i \in 1..Len(tags) : tags[i] \notin DOMAIN c._tags_by_name
    THEN "Unknown tag"
    ELSE IF project # None /\ project[1] \notin DOMAIN c._projects_by_name
    THEN "Unknown project"
    ELSE ""

\* every entry sent with _api_post
UsesPatch_Never(entry) == FALSE

\* is the entry sent with _api_patch (closing the open entry)?
UsesPatch(entry) == entry.start = None

\* add_entries: the endpoint and verb of one entry
EntryRequest(entry, data) ==
    IF UsesPatch(entry)
    THEN Request("PATCH", "workspaces/w/user/u/time-entries", data)
    ELSE Request("POST", "workspaces/w/time-entries", data)

\* _get_entries: the windowed query
GetEntriesRequest(c, start, end) ==
    Request("GET", "workspaces/w/user/u/time-entries",
            [NoData EXCEPT
                !.start = Some(to_iso_timestamp(start, c._user_tz[1])),
                !.end = Some(to_iso_timestamp(end, c._user_tz[1]))])

\* get_entries_day: the window of a day
DayWindow(date) ==
    LET start == Combine(date, Midnight) IN
    <<start, [start EXCEPT !.d = @ + 1]>>

\* get_entries_month: the window of the month that starts on first_date;
\* calendar.monthrange gives the month of the model calendar 31 days
MonthDays == 31
MonthWindow(date) ==
    <<Combine(date.d, Midnight),
      Combine(date.d + MonthDays - 1, [t |-> DaySecs - 1, us |-> 999999])>>

---------------------------------------------------------------------------
(* main.py: run and main *)

\* main: run returned (code "0"), raised a utils.Error (code "1"), or
\* raised an exception main does not catch ("uncaught")
Exit(code, msg) == exit' = code /\ error' = msg /\ pc' = "done"

\* run going on to the client after parse raised a usage error
Parse_GoesOn ==
    /\ pc = "parse"
    /\ parser' = parse(parser, args, dumpArg, conkyArg)
    /\ IF parser'.raised = "IndexError"
       THEN Exit("uncaught", parser'.raised)
       ELSE pc' = "client_init" /\ UNCHANGED <<exit, error>>
    /\ UNCHANGED <<args, dumpArg, conkyArg, hostOff, client, idx, added,
                   requests, committed, codecVars,
                   entryVars>>

\* argparser.parse()
Parse ==
    /\ pc = "parse"
    /\ parser' = parse(parser, args, dumpArg, conkyArg)
    /\ IF parser'.raised = "IndexError"
       THEN Exit("uncaught", parser'.raised)
       ELSE IF parser'.raised # ""
       THEN Exit("1", parser'.raised)
       ELSE pc' = "client_init" /\ UNCHANGED <<exit, error>>
    /\ UNCHANGED <<args, dumpArg, conkyArg, hostOff, client, idx, added,
                   requests, committed, codecVars,
                   entryVars>>

\* client.ClockifyClient(debug=, workspace=argparser.workspace)
ClientInit ==
    /\ pc = "client_init"
    /\ \E env \in Environs :
         IF ~env.key
         THEN Exit("1", "CLOCKIFY_API_KEY not defined in environment")
              /\ UNCHANGED client
         ELSE IF parser.workspace = None /\ env.workspace = None
         THEN Exit("1", "CLOCKIFY_WORKSPACE not defined in environment")
              /\ UNCHANGED client
         ELSE /\ client' = [ClientNone EXCEPT !._workspace_name =
                               IF parser.workspace = None
                               THEN env.workspace ELSE parser.workspace]
              /\ pc' = "_fetch_workspace_id"
              /\ UNCHANGED <<exit, error>>
    /\ UNCHANGED <<args, dumpArg, conkyArg, hostOff, parser, idx, added,
                   requests, committed, codecVars,
                   entryVars>>

\* fetch_info without the try/except of run around it
FetchFailed_NotCaught(out) ==
    /\ out # "ok"
    /\ IF out = "not ok" THEN Exit("1", "APIError")
       ELSE Exit("uncaught", "ConnectionError")
    /\ UNCHANGED client

\* a GET of fetch_info that did not succeed: _api_call raises APIError,
\* and run turns requests' ConnectionError into utils.Error
FetchFailed(out) ==
    /\ out # "ok"
    /\ Exit("1", IF out = "not ok" THEN "APIError" ELSE "Error")
    /\ UNCHANGED client

\* _fetch_workspace_id that goes on when no workspace has the name
FetchWorkspaceId_GoesOn ==
    /\ pc = "_fetch_workspace_id"
    /\ requests' = Append(requests, Request("GET", "workspaces", NoData))
    /\ \E out \in Outcomes :
         \/ FetchFailed(out)
         \/ /\ out = "ok"
            /\ LET found == SelectSeq(ServerWorkspaces, LAMBDA w :
                                Some(w.name) = client._workspace_name) IN
               IF found = <<>>
               THEN /\ pc' = "_fetch_user_info"
                    /\ UNCHANGED <<client, exit, error>>
               ELSE /\ client' = [client EXCEPT
                                     !._workspace_id = Some(found[1].id)]
                    /\ pc' = "_fetch_user_info"
                    /\ UNCHANGED <<exit, error>>
    /\ UNCHANGED <<args, dumpArg, conkyArg, hostOff, parser, idx, added,
                   committed, codecVars,
                   entryVars>>

\* _fetch_workspace_id
FetchWorkspaceId ==
    /\ pc = "_fetch_workspace_id"
    /\ requests' = Append(requests, Request("GET", "workspaces", NoData))
    /\ \E out \in Outcomes :
         \/ FetchFailed(out)
         \/ /\ out = "ok"
            /\ LET found == SelectSeq(ServerWorkspaces, LAMBDA w :
                                Some(w.name) = client._workspace_name) IN
               IF found = <<>>
               THEN Exit("1", "No workspace found") /\ UNCHANGED client
               ELSE /\ client' = [client EXCEPT
                                     !._workspace_id = Some(found[1].id)]
                    /\ pc' = "_fetch_user_info"
                    /\ UNCHANGED <<exit, error>>
    /\ UNCHANGED <<args, dumpArg, conkyArg, hostOff, parser, idx, added,
                   committed, codecVars,
                   entryVars>>

\* _fetch_user_info
FetchUserInfo ==
    /\ pc = "_fetch_user_info"
    /\ requests' = Append(requests, Request("GET", "user", NoData))
    /\ \E out \in Outcomes :
         \/ FetchFailed(out)
         \/ /\ out = "ok"
            /\ \E zone \in UserZones :
                 client' = [client EXCEPT !._user_id = Some("u1"),
                                          !._user_tz = Some(zone)]
            /\ pc' = "_fetch_projects"
            /\ UNCHANGED <<exit, error>>
    /\ UNCHANGED <<args, dumpArg, conkyArg, hostOff, parser, idx, added,
                   committed, codecVars,
                   entryVars>>

\* _fetch_projects
FetchProjects ==
    /\ pc = "_fetch_projects"
    /\ requests' = Append(requests,
                          Request("GET", "workspaces/w/projects", NoData))
    /\ \E out \in Outcomes :
         \/ FetchFailed(out)
         \/ /\ out = "ok"
            /\ client' = [client EXCEPT
                  !._projects_by_name = IndexBy(ServerProjects, "name"),
                  !._projects_by_id = IndexBy(ServerProjects, "id")]
            /\ pc' = "_fetch_tags"
            /\ UNCHANGED <<exit, error>>
    /\ UNCHANGED <<args, dumpArg, conkyArg, hostOff, parser, idx, added,
                   committed, codecVars,
                   entryVars>>

\* _fetch_tags, the last step of fetch_info
FetchTags ==
    /\ pc = "_fetch_tags"
    /\ requests' = Append(requests,
                          Request("GET", "workspaces/w/tags", NoData))
    /\ \E out \in Outcomes :
         \/ FetchFailed(out)
         \/ /\ out = "ok"
            /\ client' = [client EXCEPT
                  !._tags_by_name = IndexBy(ServerTags, "name"),
                  !._tags_by_id = IndexBy(ServerTags, "id")]
            /\ pc' = "fetched"
            /\ UNCHANGED <<exit, error>>
    /\ UNCHANGED <<args, dumpArg, conkyArg, hostOff, parser, idx, added,
                   committed, codecVars,
                   entryVars>>

\* the windowed GET of _get_entries, issued when its generator is consumed,
\* and the end of the run: outside fetch_info a ConnectionError is not
\* caught
FetchEntries(window) ==
    /\ requests' = Append(requests,
                          GetEntriesRequest(client, window[1], window[2]))
    /\ \E out \in Outcomes :
         CASE out = "ok" -> Exit("0", "")
           [] out = "not ok" -> Exit("1", "APIError")
           [] OTHER -> Exit("uncaught", "ConnectionError")
    /\ UNCHANGED <<args, dumpArg, conkyArg, hostOff, parser, client, idx,
                   added, committed, codecVars,
                   entryVars>>

\* parser.dump_mode, which output.dump reads and parser.py does not define:
\* the dump is of a month (or of a year); parse accepts only the month form
\* YYYY-MM
dump_mode(p) == "MONTH"

\* if argparser.dump: return output.dump(...); the month branch of
\* output.dump consumes client.get_entries_month(parser.dump)
Dump ==
    /\ pc = "fetched"
    /\ parser.dump # None
    /\ dump_mode(parser) = "MONTH"
    /\ FetchEntries(MonthWindow(parser.dump[1]))

\* elif argparser.conky: return output.conky(...)
Conky ==
    /\ pc = "fetched"
    /\ parser.dump = None
    /\ parser.conky
    /\ FetchEntries(DayWindow(parser.date))

\* run submitting the entries before it looks at the dump and conky flags
Validate_BeforeFlags ==
    /\ pc = "fetched"
    /\ parser.entries # <<>>
    /\ LET msg == validate(client, parser.tags, parser.project) IN
       IF msg # ""
       THEN Exit("1", msg) /\ UNCHANGED idx
       ELSE pc' = "add_entries" /\ idx' = 1 /\ UNCHANGED <<exit, error>>
    /\ UNCHANGED <<args, dumpArg, conkyArg, hostOff, parser, client, added,
                   requests, committed, codecVars,
                   entryVars>>

\* if argparser.entries: cliclient.validate(...)
Validate ==
    /\ pc = "fetched"
    /\ parser.dump = None
    /\ ~parser.conky
    /\ parser.entries # <<>>
    /\ LET msg == validate(client, parser.tags, parser.project) IN
       IF msg # ""
       THEN Exit("1", msg) /\ UNCHANGED idx
       ELSE pc' = "add_entries" /\ idx' = 1 /\ UNCHANGED <<exit, error>>
    /\ UNCHANGED <<args, dumpArg, conkyArg, hostOff, parser, client, added,
                   requests, committed, codecVars,
                   entryVars>>

\* a run without entries that returns without showing the day
NoEntries_Return ==
    /\ pc = "fetched"
    /\ parser.dump = None
    /\ ~parser.conky
    /\ parser.entries = <<>>
    /\ Exit("0", "")
    /\ UNCHANGED <<args, dumpArg, conkyArg, hostOff, parser, client, idx,
                   added, requests, committed, codecVars,
                   entryVars>>

\* else: added = set()
NoEntries ==
    /\ pc = "fetched"
    /\ parser.dump = None
    /\ ~parser.conky
    /\ parser.entries = <<>>
    /\ pc' = "print"
    /\ UNCHANGED <<args, dumpArg, conkyArg, hostOff, parser, client, idx,
                   added, requests, committed, exit, error, codecVars,
                   entryVars>>

\* the loop of add_entries going on to the next entry after a response
\* that is not ok
AddEntry_KeepGoing ==
    /\ pc = "add_entries"
    /\ idx <= Len(parser.entries)
    /\ LET entry == parser.entries[idx]
           ser == serialize(entry, client._projects_by_name,
                            client._tags_by_name)
           req == EntryRequest(entry, ser.data) IN
       /\ ser.raised = ""
       /\ requests' = Append(requests, req)
       /\ \E out \in Outcomes :
            /\ committed' = IF out = "ok" THEN Append(committed, req)
                            ELSE committed
            /\ added' = IF out = "ok" THEN added \cup {Len(committed) + 1}
                        ELSE added
            /\ idx' = idx + 1
            /\ pc' = IF idx = Len(parser.entries)
                     THEN "print" ELSE "add_entries"
            /\ UNCHANGED <<exit, error>>
    /\ UNCHANGED <<args, dumpArg, conkyArg, hostOff, parser, client,
                   codecVars,
                   entryVars>>

\* add_entries under a handler that turns a ConnectionError into the Error
AddEntry_Caught ==
    /\ pc = "add_entries"
    /\ idx <= Len(parser.entries)
    /\ LET entry == parser.entries[idx]
           ser == serialize(entry, client._projects_by_name,
                            client._tags_by_name)
           req == EntryRequest(entry, ser.data) IN
       IF ser.raised # ""
       THEN Exit("uncaught", ser.raised)
            /\ UNCHANGED <<idx, added, requests, committed>>
       ELSE /\ requests' = Append(requests, req)
            /\ \E out \in Outcomes :
                 CASE out = "ok" ->
                        /\ committed' = Append(committed, req)
                        /\ added' = added \cup {Len(committed) + 1}
                        /\ idx' = idx + 1
                        /\ pc' = IF idx = Len(parser.entries)
                                 THEN "print" ELSE "add_entries"
                        /\ UNCHANGED <<exit, error>>
                   [] out = "not ok" ->
                        /\ Exit("1", "APIError")
                        /\ UNCHANGED <<idx, added, committed>>
                   [] OTHER ->
                        /\ Exit("1", "Error")
                        /\ UNCHANGED <<idx, added, committed>>
    /\ UNCHANGED <<args, dumpArg, conkyArg, hostOff, parser, client,
                   codecVars,
                   entryVars>>

\* one iteration of the loop of add_entries
AddEntry ==
    /\ pc = "add_entries"
    /\ idx <= Len(parser.entries)
    /\ LET entry == parser.entries[idx]
           ser == serialize(entry, client._projects_by_name,
                            client._tags_by_name)
           req == EntryRequest(entry, ser.data) IN
       IF ser.raised # ""
       THEN Exit("uncaught", ser.raised)
            /\ UNCHANGED <<idx, added, requests, committed>>
       ELSE /\ requests' = Append(requests, req)
            /\ \E out \in Outcomes :
                 CASE out = "ok" ->
                        /\ committed' = Append(committed, req)
                        /\ added' = added \cup {Len(committed) + 1}
                        /\ idx' = idx + 1
                        /\ pc' = IF idx = Len(parser.entries)
                                 THEN "print" ELSE "add_entries"
                        /\ UNCHANGED <<exit, error>>
                   [] out = "not ok" ->
                        /\ Exit("1", "APIError")
                        /\ UNCHANGED <<idx, added, committed>>
                   [] OTHER ->
                        /\ Exit("uncaught", "ConnectionError")
                        /\ UNCHANGED <<idx, added, committed>>
    /\ UNCHANGED <<args, dumpArg, conkyArg, hostOff, parser, client,
                   codecVars,
                   entryVars>>

\* client.workspace_name, which print_header reads and client.py does not
\* define: the name of the workspace the client works in
workspace_name(c) == c._workspace_name

\* print_header: the rows of the overview it prints; None is the
\* AttributeError of a client without a workspace name
print_header(c, p) ==
    IF workspace_name(c) = None THEN None
    ELSE Some(<<workspace_name(c)[1], p.project, p.tags>>)

\* get_entries_day, print_header, print_entries: get_entries_day returns a
\* generator, print_header prints the overview, and print_entries consumes
\* the generator, which issues the windowed GET
PrintDay ==
    /\ pc = "print"
    /\ IF print_header(client, parser) = None
       THEN /\ Exit("uncaught", "AttributeError")
            /\ UNCHANGED <<args, dumpArg, conkyArg, hostOff, parser, client,
                           idx, added, requests, committed, codecVars,
                           entryVars>>
       ELSE FetchEntries(DayWindow(parser.date))

---------------------------------------------------------------------------
(* The codec on its own *)

CodecDays == {Today - 1, Today}
CodecTimes == {0, 9 * 3600, NowSecs, DaySecs - 1}
CodecMicros == {0, NowMicros}
CodecZones == HostZones \cup UserZones

CodecSerialize ==
    /\ pc = "to_iso"
    /\ cwire' = to_iso_timestamp(cdt, UTC)
    /\ pc' = "from_iso"
    /\ UNCHANGED <<args, dumpArg, conkyArg, hostOff, parser, client, idx,
                   added, requests, committed, exit, error, cdt, czone,
                   cback, entryVars>>

CodecDeserialize ==
    /\ pc = "from_iso"
    /\ cback' = from_iso_timestamp(cwire, czone)
    /\ pc' = "codec_done"
    /\ UNCHANGED <<args, dumpArg, conkyArg, hostOff, parser, client, idx,
                   added, requests, committed, exit, error, cdt, czone,
                   cwire, entryVars>>

---------------------------------------------------------------------------
(* Entry.serialize and Entry.deserialize on their own *)

\* the entries handed to serialize
EntryTimes == { None, Some(Combine(Today, [t |-> 9 * 3600, us |-> 0])),
                Some(Combine(Today, [t |-> 17 * 3600, us |-> 0])) }
EntryDescriptions == { None, Some(<<>>), Some(<<"foo">>) }
EntryProjects == { None, Some("work"), Some("nope") }
EntryTagNames == { "urgent", "late", "zzz" }
Entries == [ start : EntryTimes, end : EntryTimes,
             description : EntryDescriptions, billable : BOOLEAN,
             project : EntryProjects, project_color : {None},
             tags : SeqsUpTo(EntryTagNames, MaxTags), eid : {None} ]

\* the time-entry records of the service handed to deserialize
RecordStamp(d, t) ==
    << [k |-> "YYYY-MM-DDTHH:MM:SS", v |-> d * DaySecs + t], ZSuffix >>
RecordEnds == { None, Some(RecordStamp(Today, 17 * 3600)),
                Some(RecordStamp(Today + 1, 3600)) }
RecordProjectIds == { None, Some("p1"), Some("p2"), Some("p9") }
RecordTagIds == { "t1", "t2", "t9" }
Records == [ id : {"e1", "e2"}, description : {<<"foo">>},
             billable : BOOLEAN, projectId : RecordProjectIds,
             tagIds : {None} \cup
                      {Some(q) : q \in SeqsUpTo(RecordTagIds, MaxTags)},
             timeInterval : [ start : {RecordStamp(Today, 23 * 3600)},
                              end : RecordEnds ] ]

NoRecord == [ id |-> "", description |-> <<>>, billable |-> FALSE,
              projectId |-> None, tagIds |-> None,
              timeInterval |-> [start |-> <<>>, end |-> None] ]
NoResult == [raised |-> "", data |-> NoData]
NoEntry == [raised |-> "", entry |-> EntryDefault]

\* entry.serialize(projects=self._projects_by_name, tags=self._tags_by_name)
EntrySerialize ==
    /\ pc = "serialize"
    /\ sdata' = serialize(sentry, IndexBy(ServerProjects, "name"),
                          IndexBy(ServerTags, "name"))
    /\ pc' = "entry_done"
    /\ UNCHANGED <<args, dumpArg, conkyArg, hostOff, parser, client, idx,
                   added, requests, committed, exit, error, codecVars,
                   sentry, record, dentry>>

\* Entry.deserialize(entry, projects=self._projects_by_id,
\*                   tags=self._tags_by_id, user_tz=self._user_tz)
EntryDeserialize ==
    /\ pc = "deserialize"
    /\ dentry' = deserialize(record, IndexBy(ServerProjects, "id"),
                             IndexBy(ServerTags, "id"), czone)
    /\ pc' = "entry_done"
    /\ UNCHANGED <<args, dumpArg, conkyArg, hostOff, parser, client, idx,
                   added, requests, committed, exit, error, codecVars,
                   sentry, sdata, record>>

---------------------------------------------------------------------------
(* Specifications *)

InitRest ==
    /\ parser = ParserInit
    /\ client = ClientNone
    /\ idx = 0
    /\ added = {}
    /\ requests = <<>>
    /\ committed = <<>>
    /\ exit = ""
    /\ error = ""

InitNoCodec ==
    /\ cdt = Now
    /\ czone = UTC
    /\ cwire = <<>>
    /\ cback = None

InitNoEntry ==
    /\ sentry = EntryDefault
    /\ sdata = NoResult
    /\ record = NoRecord
    /\ dentry = NoEntry

\* a whole run of main
Init ==
    /\ args \in SeqsUpTo(RunTokens, MaxArgs)
    /\ dumpArg \in DumpArgs
    /\ conkyArg \in BOOLEAN
    /\ hostOff \in HostZones
    /\ pc = "parse"
    /\ InitRest
    /\ InitNoCodec
    /\ InitNoEntry

Next ==
    \/ Parse
    \/ ClientInit
    \/ FetchWorkspaceId
    \/ FetchUserInfo
    \/ FetchProjects
    \/ FetchTags
    \/ Dump
    \/ Conky
    \/ Validate
    \/ NoEntries
    \/ AddEntry
    \/ PrintDay

Spec == Init /\ [][Next]_vars

\* a run of main without --dump and --conky, which goes on until main
\* returns or an exception ends it
LiveTokens == { <<"start">>, <<"stop">>, <<"9:00", "-", "17:00">>,
                <<"+", "urgent">>, <<"@", "nope">>, <<"foo">> }

InitLive ==
    /\ args \in SeqsUpTo(LiveTokens, MaxLiveArgs)
    /\ dumpArg = None
    /\ conkyArg = FALSE
    /\ hostOff = 3600
    /\ pc = "parse"
    /\ InitRest
    /\ InitNoCodec
    /\ InitNoEntry

NextLive ==
    \/ Parse
    \/ ClientInit
    \/ FetchWorkspaceId
    \/ FetchUserInfo
    \/ FetchProjects
    \/ FetchTags
    \/ Validate
    \/ NoEntries
    \/ AddEntry
    \/ PrintDay

SpecLive == InitLive /\ [][NextLive]_vars /\ WF_vars(NextLive)

\* ArgumentParser.parse on its own
InitParse ==
    /\ args \in SeqsUpTo(ParseTokens, MaxTokens)
    /\ dumpArg \in ParseDumpArgs
    /\ conkyArg = FALSE
    /\ hostOff = 3600
    /\ pc = "parse"
    /\ InitRest
    /\ InitNoCodec
    /\ InitNoEntry

NextParse == Parse

SpecParse == InitParse /\ [][NextParse]_vars

\* to_iso_timestamp and from_iso_timestamp on their own
InitCodec ==
    /\ args = <<>>
    /\ dumpArg = None
    /\ conkyArg = FALSE
    /\ hostOff \in HostZones
    /\ pc = "to_iso"
    /\ InitRest
    /\ cdt \in [d : CodecDays, t : CodecTimes, us : CodecMicros,
                tz : {None} \cup {Some(z) : z \in CodecZones}]
    /\ czone \in CodecZones
    /\ cwire = <<>>
    /\ cback = None
    /\ InitNoEntry

NextCodec == CodecSerialize \/ CodecDeserialize

SpecCodec == InitCodec /\ [][NextCodec]_vars

\* Entry.serialize and Entry.deserialize on their own
InitEntry ==
    /\ args = <<>>
    /\ dumpArg = None
    /\ conkyArg = FALSE
    /\ hostOff \in HostZones
    /\ InitRest
    /\ cdt = Now
    /\ cwire = <<>>
    /\ cback = None
    /\ sdata = NoResult
    /\ dentry = NoEntry
    /\ \/ /\ pc = "serialize"
          /\ sentry \in Entries
          /\ record = NoRecord
          /\ czone = UTC
       \/ /\ pc = "deserialize"
          /\ sentry = EntryDefault
          /\ record \in Records
          /\ czone \in UserZones

NextEntry == EntrySerialize \/ EntryDeserialize

SpecEntry == InitEntry /\ [][NextEntry]_vars

---------------------------------------------------------------------------
(* Vocabulary of the properties *)

\* the POST and PATCH requests issued so far, in order
Mutations == SelectSeq(requests, LAMBDA r : r.verb \in {"POST", "PATCH"})

ServerTagNames == {ServerTags[i].name : i \in 1..Len(ServerTags)}
ServerProjectNames == {ServerProjects[i].name : i \in 1..Len(ServerProjects)}

\* the payloads of the tokens that start with the given sigil, in order
RECURSIVE Payloads(_, _)
Payloads(inputs, sigil) ==
    IF inputs = <<>> THEN <<>>
    ELSE (IF Head(inputs) # <<>> /\ Head(inputs)[1] = sigil
          THEN <<Rest(Head(inputs))>> ELSE <<>>)
         \o Payloads(Tail(inputs), sigil)

Last(s) == s[Len(s)]

\* the run got through fetch_info and neither dumps nor prints for conky
ReachedEntries ==
    /\ client._tags_by_id # <<>>
    /\ parser.dump = None
    /\ ~parser.conky

---------------------------------------------------------------------------
(* C1 *)

\* a + token names a tag the workspace does not have, or the last @ token
\* names a project it does not have
C1_UnknownReference ==
    \/ \E i \in 1..Len(Payloads(args, "+")) :
          Payloads(args, "+")[i] \notin ServerTagNames
    \/ /\ Payloads(args, "@") # <<>>
       /\ Last(Payloads(args, "@")) \notin ServerProjectNames

\* C1 as stated: an unknown project name or tag name in any token keeps
\* the run from issuing a POST or a PATCH.
C1_AnyUnknownTokenBlocksMutation ==
    (\/ \E i \in 1..Len(Payloads(args, "+")) :
           Payloads(args, "+")[i] \notin ServerTagNames
     \/ \E i \in 1..Len(Payloads(args, "@")) :
           Payloads(args, "@")[i] \notin ServerProjectNames)
    => Mutations = <<>>

\* C1, amended: when a + token names an unknown tag, or the last @ token
\* names an unknown project, the run issues no POST and no PATCH and never
\* enters add_entries; a run that reaches validation ends there with the
\* usage error "Unknown tag" or "Unknown project", having issued only the
\* four requests of fetch_info.
C1_UnknownReferenceBlocksMutation ==
    C1_UnknownReference =>
        /\ Mutations = <<>>
        /\ pc \notin {"add_entries", "print"}
        /\ (pc = "done" /\ ReachedEntries) =>
               /\ exit = "1"
               /\ error \in {"Unknown tag", "Unknown project"}
               /\ Len(requests) = 4

\* C1 witness: a batch of two entries with an unknown tag was stopped by
\* validate
C1_Witness ==
    /\ C1_UnknownReference
    /\ pc = "done"
    /\ ReachedEntries
    /\ Len(parser.entries) = 2
    /\ error = "Unknown tag"

---------------------------------------------------------------------------
(* C2 *)

\* C2: the k-th mutation request is the one request of the k-th entry; it
\* is a PATCH of the user's time-entries endpoint exactly if that entry's
\* start is None and a POST to the workspace's time-entries endpoint
\* exactly if it is not; a run of the single token stop issues no POST.
C2_OneRequestPerEntry ==
    LET muts == Mutations IN
    /\ Len(muts) <= Len(parser.entries)
    /\ pc = "add_entries" => Len(muts) = idx - 1
    /\ pc = "print" => Len(muts) = Len(parser.entries)
    /\ \A k \in 1..Len(muts) :
         /\ (parser.entries[k].start = None) <=>
                /\ muts[k].verb = "PATCH"
                /\ muts[k].path = "workspaces/w/user/u/time-entries"
         /\ (parser.entries[k].start # None) <=>
                /\ muts[k].verb = "POST"
                /\ muts[k].path = "workspaces/w/time-entries"
    /\ args = << <<"stop">> >> =>
         \A i \in 1..Len(requests) : requests[i].verb # "POST"

\* C2 witness: a run that closed the open entry with a PATCH and then
\* created one with a POST
C2_Witness ==
    /\ pc = "print"
    /\ Len(Mutations) = 2
    /\ Mutations[1].verb = "PATCH"
    /\ Mutations[2].verb = "POST"

---------------------------------------------------------------------------
(* C3 *)

\* C3: the k-th mutation request carries the k-th entry of the parser; the
\* committed requests are a prefix of the issued ones, at most one issued
\* request is not committed, and when one is not, it is the last request
\* of the run, which has ended with an error.
C3_FailFast ==
    LET muts == Mutations IN
    /\ Len(muts) <= Len(parser.entries)
    /\ \A k \in 1..Len(muts) :
         muts[k].data = serialize(parser.entries[k],
                                  client._projects_by_name,
                                  client._tags_by_name).data
    /\ Len(committed) <= Len(muts)
    /\ committed = SubSeq(muts, 1, Len(committed))
    /\ Len(muts) <= Len(committed) + 1
    /\ Len(muts) = Len(committed) + 1 =>
         /\ pc = "done"
         /\ exit \in {"1", "uncaught"}
         /\ Last(requests) = Last(muts)

\* C3 witness: the second of three entries failed after the first was
\* committed
C3_Witness ==
    /\ Len(parser.entries) = 3
    /\ Len(committed) = 1
    /\ Len(Mutations) = 2
    /\ Mutations[1] # Mutations[2]
    /\ exit = "1"
    /\ error = "APIError"

---------------------------------------------------------------------------
(* Vocabulary of the properties about parse *)

\* parse returned without raising
ParseOk == pc # "parse" /\ parser.raised = ""

\* a timespan token: TIME-TIME, or one of the aliases start and stop
IsTimespanToken(tok) ==
    \/ tok \in {<<"start">>, <<"stop">>}
    \/ Len(tok) = 3 /\ tok[2] = "-"

\* the start side and the end side of a timespan token
SpanSides(tok) ==
    IF tok = <<"start">> THEN <<"now", "/">>
    ELSE IF tok = <<"stop">> THEN <<"/", "now">>
    ELSE <<tok[1], tok[3]>>

\* the time of day a side of a timespan token stands for
SideTime(side) ==
    CASE side = "/"     -> None
      [] side = "now"   -> Some([t |-> NowSecs, us |-> NowMicros])
      [] side = "9:00"  -> Some([t |-> 32400, us |-> 0])
      [] side = "17:00" -> Some([t |-> 61200, us |-> 0])

\* the time of day of an optional datetime
TimeOf(dt) == IF dt = None THEN None ELSE Some([t |-> dt[1].t, us |-> dt[1].us])

IsWordToken(tok) ==
    tok # <<>> /\ ~IsTimespanToken(tok) /\ tok[1] \notin Sigils

\* the strings joined by single spaces
RECURSIVE JoinSpace(_)
JoinSpace(words) ==
    IF words = <<>> THEN <<>>
    ELSE IF Len(words) = 1 THEN words[1]
    ELSE words[1] \o <<" ">> \o JoinSpace(Tail(words))

DescriptionGiven == \E i \in 1..Len(args) : IsWordToken(args[i])
BillableGiven    == \E i \in 1..Len(args) : args[i] = <<"$">>
ProjectGiven     == /\ Payloads(args, "@") # <<>>
                    /\ Last(Payloads(args, "@")) # ""
TagsGiven        == Payloads(args, "+") # <<>>

---------------------------------------------------------------------------
(* C4 *)

\* C4 as stated: every Entry draft of a successful parse has tags equal to
\* the payloads of the + tokens, in token order.
C4_DraftsCarryTags ==
    ParseOk =>
        \A k \in 1..Len(parser.entries) :
            parser.entries[k].tags = Payloads(args, "+")

---------------------------------------------------------------------------
(* C5 *)

\* C5: after a successful parse there is one Entry draft per timespan
\* token, the k-th draft having the start and end times of day of the k-th
\* timespan token, and every draft carries the description (the word tokens
\* joined by spaces), the billable flag (a $ token was given) and the
\* project (the payload of the last @ token) of the whole sequence.
C5_OneDraftPerTimespan ==
    ParseOk =>
        LET spans == SelectSeq(args, IsTimespanToken) IN
        /\ Len(parser.entries) = Len(spans)
        /\ \A k \in 1..Len(parser.entries) :
             LET e == parser.entries[k] IN
             /\ TimeOf(e.start) = SideTime(SpanSides(spans[k])[1])
             /\ TimeOf(e.end) = SideTime(SpanSides(spans[k])[2])
             /\ e.description = Some(JoinSpace(SelectSeq(args, IsWordToken)))
             /\ e.billable = BillableGiven
             /\ e.project = IF Payloads(args, "@") = <<>> THEN None
                            ELSE Some(Last(Payloads(args, "@")))

\* C5 witness: a timespan token between two words yields a draft described
\* by both words
C5_Witness ==
    /\ ParseOk
    /\ Len(args) = 3
    /\ IsTimespanToken(args[2])
    /\ Len(parser.entries) = 1
    /\ parser.entries[1].description = Some(<<"foo", " ", "bar">>)

---------------------------------------------------------------------------
(* C6 *)

UsesNow(tok) ==
    IsTimespanToken(tok) /\ "now" \in {SpanSides(tok)[1], SpanSides(tok)[2]}

\* a date token that resolves to a date other than today
IsOtherDateToken(tok) ==
    /\ tok # <<>>
    /\ tok[1] = "."
    /\ dateparser_parse(Rest(tok), Combine(Today, Midnight)) # None
    /\ dateparser_parse(Rest(tok), Combine(Today, Midnight))[1].d # Today

\* C6 as stated: a token sequence with a timespan that uses now and a date
\* token that resolves to another day fails with a usage error, in either
\* order of the two tokens.
C6_NowWithOtherDateFails ==
    (/\ pc # "parse"
     /\ \E i, j \in 1..Len(args) :
           UsesNow(args[i]) /\ IsOtherDateToken(args[j]))
    => parser.raised # ""

---------------------------------------------------------------------------
(* C7 *)

\* C7: every Entry draft of a successful parse has a start or an end, and
\* serialize does not fail its assertion on it; a token sequence holding
\* the timespan /-/ is rejected with a usage error.
C7_DraftHasStartOrEnd ==
    pc # "parse" =>
        /\ parser.raised = "" =>
             \A k \in 1..Len(parser.entries) :
                /\ parser.entries[k].start # None
                   \/ parser.entries[k].end # None
                /\ serialize(parser.entries[k],
                             IndexBy(ServerProjects, "name"),
                             IndexBy(ServerTags, "name")).raised
                   # "AssertionError"
        /\ (\E i \in 1..Len(args) : args[i] = <<"/", "-", "/">>) =>
             parser.raised # ""

\* C7 witness: /-/ after a close-out was rejected by _parse_timespan
C7_Witness ==
    /\ pc = "done"
    /\ Len(args) = 2
    /\ args[1] = <<"stop">>
    /\ args[2] = <<"/", "-", "/">>
    /\ parser.raised = "Either start or end time needs to be given"

---------------------------------------------------------------------------
(* C8 *)

\* the tokens are all accepted, no timespan token has a start, and a
\* description, the billable flag, a project or a tag is given
C8_MetadataWithoutNewEntry ==
    /\ pc # "parse"
    /\ ParseLoop(ParserInit, args).raised = ""
    /\ \A i \in 1..Len(args) :
          IsTimespanToken(args[i]) => SpanSides(args[i])[1] = "/"
    /\ DescriptionGiven \/ BillableGiven \/ ProjectGiven \/ TagsGiven

\* parse raised the usage error that names a field that was given
C8_NamesGivenField ==
    \/ /\ parser.raised = "Description given without new entries"
       /\ DescriptionGiven
    \/ /\ parser.raised = "Billable given without new entries"
       /\ BillableGiven
    \/ /\ parser.raised = "Project given without new entries"
       /\ ProjectGiven
    \/ /\ parser.raised = "Tags given without new entries"
       /\ TagsGiven

---------------------------------------------------------------------------
(* C9 *)

\* the instant of dt in UTC, without offset, followed by one Z
UtcZ(dt) ==
    <<[k |-> "YYYY-MM-DDTHH:MM:SS", v |-> Instant(dt)]>>
    \o (IF dt.us # 0 THEN <<[k |-> ".ffffff", v |-> dt.us]>> ELSE <<>>)
    \o <<ZSuffix>>

\* the start and end of every submitted entry are sent as UTC with a Z
C9_SubmittedAreUtcZ ==
    \A k \in 1..Len(Mutations) :
        LET e == parser.entries[k]
            d == Mutations[k].data IN
        /\ d.start = IF e.start = None THEN None ELSE Some(UtcZ(e.start[1]))
        /\ d.end = IF e.end = None THEN None ELSE Some(UtcZ(e.end[1]))

\* the bounds of every time-entries query are sent as UTC with a Z
C9_QueriedAreUtcZ ==
    \A i \in 1..Len(requests) :
        (requests[i].verb = "GET" /\ requests[i].data.start # None) =>
            LET w == IF parser.dump # None
                     THEN MonthWindow(parser.dump[1])
                     ELSE DayWindow(parser.date) IN
            /\ requests[i].data.start = Some(UtcZ(w[1]))
            /\ requests[i].data.end = Some(UtcZ(w[2]))

\* C9 as stated: every timestamp sent, in submission payloads and in the
\* query bounds of day and month retrieval, is the instant in UTC, without
\* a numeric offset, ending in exactly one Z, for every profile zone.
C9_TimestampsAreUtcZ == C9_SubmittedAreUtcZ /\ C9_QueriedAreUtcZ

---------------------------------------------------------------------------
(* C10 *)

\* C10: a datetime serialized by to_iso_timestamp with the default UTC
\* target and read back by from_iso_timestamp into any viewer zone is the
\* same instant, to the second, expressed in the viewer zone.
C10_RoundTrip ==
    pc = "codec_done" =>
        /\ cback # None
        /\ Instant(cback[1]) = Instant(cdt)
        /\ cback[1].tz = Some(czone)

\* C10 witness: a naive datetime one second before the host's midnight,
\* with microseconds, read back on the next day of a zone further east
C10_Witness ==
    /\ pc = "codec_done"
    /\ cdt.tz = None
    /\ cdt.t = DaySecs - 1
    /\ cdt.us # 0
    /\ hostOff < 0
    /\ czone > 0
    /\ cback # None
    /\ cback[1].d = cdt.d + 1

---------------------------------------------------------------------------
(* C11 *)

\* the timespan tokens of the invocation, in order
SpanTokens == SelectSeq(args, IsTimespanToken)

\* the side of a timespan token is a clock time H:MM
IsClockSide(side) == side \notin {"now", "/"}

\* the datetime read as wall-clock time of the user profile's zone
InProfileZone(dt) == [dt EXCEPT !.tz = client._user_tz]

\* C11 as stated: the start and the end sent for a token time H:MM are the
\* instant of H:MM on the target date in the zone of the user profile, not
\* in the zone of the host.
C11_TokenTimesInProfileZone ==
    \A k \in 1..Len(Mutations) :
        LET e == parser.entries[k]
            d == Mutations[k].data
            sides == SpanSides(SpanTokens[k]) IN
        /\ (e.start # None /\ IsClockSide(sides[1])) =>
               d.start = Some(UtcZ(InProfileZone(e.start[1])))
        /\ (e.end # None /\ IsClockSide(sides[2])) =>
               d.end = Some(UtcZ(InProfileZone(e.end[1])))

---------------------------------------------------------------------------
(* Vocabulary of the properties about Entry *)

SerializeDone == pc = "entry_done" /\ record = NoRecord
DeserializeDone == pc = "entry_done" /\ record # NoRecord

\* the catalog records of the service, looked up by one of their fields
ServerTagBy(key, x) ==
    ServerTags[CHOOSE i \in 1..Len(ServerTags) : ServerTags[i][key] = x]
ServerProjectBy(key, x) ==
    ServerProjects[CHOOSE i \in 1..Len(ServerProjects) :
                       ServerProjects[i][key] = x]

\* the keys present in a serialized dict
KeysOf(d) == {k \in DOMAIN d : d[k] # None}

---------------------------------------------------------------------------
(* C12 *)

\* C12: when start is None, serialize returns the dict with the one key end,
\* whatever description, billable flag, project or tags the entry carries;
\* otherwise the dict has start, billable and tagIds, has end, description
\* and projectId exactly when the field is set, and holds the ids the name
\* catalogs give for the project and for the tags, in the entry's tag order.
C12_SerializeShape ==
    SerializeDone =>
        LET d == sdata.data IN
        /\ (sentry.start = None /\ sentry.end # None) =>
               /\ sdata.raised = ""
               /\ KeysOf(d) = {"end"}
               /\ d.end = Some(UtcZ(sentry.end[1]))
        /\ (sentry.start # None /\ sdata.raised = "") =>
               /\ {"start", "billable", "tagIds"} \subseteq KeysOf(d)
               /\ d.start = Some(UtcZ(sentry.start[1]))
               /\ d.billable = Some(sentry.billable)
               /\ "end" \in KeysOf(d) <=> sentry.end # None
               /\ sentry.end # None => d.end = Some(UtcZ(sentry.end[1]))
               /\ "description" \in KeysOf(d) <=> sentry.description # None
               /\ d.description = sentry.description
               /\ "projectId" \in KeysOf(d) <=> sentry.project # None
               /\ sentry.project # None =>
                      d.projectId =
                          Some(ServerProjectBy("name", sentry.project[1]).id)
               /\ Len(d.tagIds[1]) = Len(sentry.tags)
               /\ \A i \in 1..Len(sentry.tags) :
                      d.tagIds[1][i] = ServerTagBy("name", sentry.tags[i]).id

\* C12 witness: a close-out that carries a description, the billable flag,
\* an unknown project and two tags was serialized to the key end alone
C12_Witness ==
    /\ SerializeDone
    /\ sentry.start = None
    /\ sentry.description = Some(<<"foo">>)
    /\ sentry.billable
    /\ sentry.project = Some("nope")
    /\ Len(sentry.tags) = 2
    /\ sdata.raised = ""
    /\ KeysOf(sdata.data) = {"end"}

---------------------------------------------------------------------------
(* C13 *)

\* C13: deserialize gives the entry the names of the record's tagIds, in the
\* record's order, the name and the colour of the record's projectId when
\* there is one, a None end when the record's end is None, and the record's
\* id as eid.
C13_DeserializeResolves ==
    (DeserializeDone /\ dentry.raised = "") =>
        LET e == dentry.entry
            ids == IF record.tagIds = None THEN <<>> ELSE record.tagIds[1] IN
        /\ Len(e.tags) = Len(ids)
        /\ \A i \in 1..Len(ids) : e.tags[i] = ServerTagBy("id", ids[i]).name
        /\ record.projectId # None =>
               /\ e.project =
                      Some(ServerProjectBy("id", record.projectId[1]).name)
               /\ e.project_color =
                      Some(ServerProjectBy("id", record.projectId[1]).color)
        /\ record.projectId = None =>
               e.project = None /\ e.project_color = None
        /\ record.timeInterval.end = None <=> e.end = None
        /\ e.eid = Some(record.id)

\* C13 witness: a running entry of the second project, tagged t2 then t1,
\* was read as late then urgent
C13_Witness ==
    /\ DeserializeDone
    /\ dentry.raised = ""
    /\ record.tagIds = Some(<<"t2", "t1">>)
    /\ record.projectId = Some("p2")
    /\ record.timeInterval.end = None
    /\ dentry.entry.tags = <<"late", "urgent">>
    /\ dentry.entry.project = Some("play")
    /\ dentry.entry.project_color = Some("blue")
    /\ dentry.entry.end = None
    /\ dentry.entry.eid = Some(record.id)

---------------------------------------------------------------------------
(* C14 *)

\* the four requests of fetch_info, in order
BootstrapRequests ==
    << Request("GET", "workspaces", NoData),
       Request("GET", "user", NoData),
       Request("GET", "workspaces/w/projects", NoData),
       Request("GET", "workspaces/w/tags", NoData) >>

\* fetch_info returned: every fetch stored what it was answered
BootstrapDone ==
    /\ client._workspace_id # None
    /\ client._user_id # None
    /\ client._user_tz # None
    /\ client._projects_by_name # <<>>
    /\ client._tags_by_name # <<>>

\* a request that submits an entry or queries the time entries
IsEntryRequest(r) ==
    \/ r.verb \in {"POST", "PATCH"}
    \/ r.verb = "GET" /\ r.path = "workspaces/w/user/u/time-entries"

\* validate has been called
Validated ==
    \/ pc \in {"add_entries", "print"} /\ parser.entries # <<>>
    \/ error \in {"Unknown tag", "Unknown project"}

ServerWorkspaceNames ==
    {ServerWorkspaces[i].name : i \in 1..Len(ServerWorkspaces)}

\* C14: the first requests of a run are the four fetches of fetch_info, in
\* the order workspaces, user, projects, tags; validate is called, and a
\* POST, a PATCH or a time-entries GET is issued, only after all four were
\* answered with success; when no listed workspace has the client's
\* workspace name, the run ends with the usage error after the one request.
C14_BootstrapFirst ==
    /\ SubSeq(requests, 1, IF Len(requests) < 4 THEN Len(requests) ELSE 4)
         = SubSeq(BootstrapRequests, 1,
                  IF Len(requests) < 4 THEN Len(requests) ELSE 4)
    /\ \A i \in 1..Len(requests) :
          IsEntryRequest(requests[i]) => i > 4 /\ BootstrapDone
    /\ Validated => Len(requests) >= 4 /\ BootstrapDone
    /\ (/\ client._workspace_name # None
        /\ client._workspace_name[1] \notin ServerWorkspaceNames) =>
          /\ Len(requests) <= 1
          /\ ~Validated
          /\ (pc = "done" /\ error = "No workspace found") => exit = "1"
          /\ pc \in {"_fetch_workspace_id", "done"}
    /\ error = "No workspace found" =>
          /\ client._workspace_name[1] \notin ServerWorkspaceNames
          /\ exit = "1"

\* C14 witness: a run with an entry to submit for a workspace the service
\* does not list ended after the first fetch
C14_Witness ==
    /\ pc = "done"
    /\ parser.entries # <<>>
    /\ client._workspace_name = Some("other")
    /\ error = "No workspace found"
    /\ exit = "1"
    /\ requests = SubSeq(BootstrapRequests, 1, 1)

---------------------------------------------------------------------------
(* C15 *)

\* the time-entries GETs issued so far
EntryQueries ==
    SelectSeq(requests, LAMBDA r :
        r.verb = "GET" /\ r.path = "workspaces/w/user/u/time-entries")

\* a run without --dump and without --conky in which parse, fetch_info,
\* validate and every submission of add_entries succeeded
C15_AllSucceeded ==
    /\ dumpArg = None
    /\ ~conkyArg
    /\ ParseOk
    /\ BootstrapDone
    /\ pc \in {"fetched", "print", "done"}
    /\ validate(client, parser.tags, parser.project) = ""
       \/ parser.entries = <<>>
    /\ Len(committed) = Len(parser.entries)
    /\ Len(Mutations) = Len(parser.entries)

\* the run has ended and its last request is the one time-entries GET, for
\* the day of the target date, issued after every submission
C15_DayFetched ==
    /\ pc = "done"
    /\ Len(EntryQueries) = 1
    /\ Last(requests) = GetEntriesRequest(client, DayWindow(parser.date)[1],
                                          DayWindow(parser.date)[2])
    /\ Len(requests) = 4 + Len(parser.entries) + 1

\* C15 as stated: a run without dump or conky flag in which parsing,
\* bootstrap, validation and every submission succeeded ends with exit
\* code 0.
C15_SucceededRunExitsZero ==
    (C15_AllSucceeded /\ pc = "done") => exit = "0"

\* C15, amended: such a run eventually issues the single windowed
\* time-entries GET for the target date, after all submissions, and ends;
\* it ends with exit code 0 unless that GET itself fails (exit code 1 for a
\* response that is not ok, an uncaught exception for a connection failure).
C15_DayFetchFollows ==
    /\ [](C15_AllSucceeded /\ pc = "done" =>
            /\ C15_DayFetched
            /\ \/ exit = "0" /\ error = ""
               \/ exit = "1" /\ error = "APIError"
               \/ exit = "uncaught" /\ error = "ConnectionError")
    /\ (C15_AllSucceeded ~> C15_DayFetched)

\* C15 witness: a run that closed the open entry, created one, fetched the
\* day and ended with exit code 0
C15_Witness ==
    /\ C15_AllSucceeded
    /\ C15_DayFetched
    /\ Len(parser.entries) = 2
    /\ Len(committed) = 2
    /\ exit = "0"

---------------------------------------------------------------------------
(* C16 *)

\* the messages of the utils.UsageError raised by parse, by the client's
\* constructor, by _fetch_workspace_id and by validate
UsageErrors ==
    { "Can't combine 'now' with different date", "strptime ValueError",
      "Couldn't parse timespan",
      "Either start or end time needs to be given", "Multiple dates",
      "Couldn't parse date", "Date contains unexpected time",
      "Multiple workspaces", "Invalid billable arg", "Unparseable month",
      "Description given without new entries",
      "Billable given without new entries",
      "Project given without new entries",
      "Tags given without new entries", "Date given with --dump",
      "CLOCKIFY_API_KEY not defined in environment",
      "CLOCKIFY_WORKSPACE not defined in environment",
      "No workspace found", "Unknown tag", "Unknown project" }

\* the exceptions of the utils.Error family: UsageError, APIError and the
\* Error that run raises for a ConnectionError of fetch_info
UtilsErrors == UsageErrors \cup {"APIError", "Error"}

\* C16: main returns 0 exactly when run returned and 1 exactly when run
\* raised a UsageError, an APIError or the Error; a connection failure of a
\* fetch of fetch_info reaches main as that Error, so that a run that ends
\* inside fetch_info always ends with exit code 1.
C16_ExitCodes ==
    /\ pc = "done" <=> exit # ""
    /\ exit = "0" <=> (pc = "done" /\ error = "")
    /\ exit = "1" <=> (pc = "done" /\ error \in UtilsErrors)
    /\ exit = "uncaught" => error \notin UtilsErrors
    /\ (pc = "done" /\ requests # <<>> /\ ~BootstrapDone) => exit = "1"
    /\ error = "Error" =>
          /\ exit = "1"
          /\ ~BootstrapDone
          /\ Len(requests) \in 1..4
          /\ requests = SubSeq(BootstrapRequests, 1, Len(requests))

\* C16 witness: the connection failed at the third fetch of fetch_info and
\* main returned 1
C16_Witness ==
    /\ pc = "done"
    /\ error = "Error"
    /\ exit = "1"
    /\ Len(requests) = 3
    /\ client._user_id # None
    /\ client._projects_by_name = <<>>

---------------------------------------------------------------------------
(* C17 *)

IsDateToken(tok) == tok # <<>> /\ tok[1] = "."

\* the token loop consumed the first n tokens without raising
Consumed(n) == ParseLoop(ParserInit, SubSeq(args, 1, n)).raised = ""

\* C17 as stated: when the token loop comes to a date token after it has
\* consumed another date token, parse fails with the usage error "Multiple
\* dates", whatever date the first one resolved to.
C17_SecondDateFails ==
    pc # "parse" =>
        \A i, j \in 1..Len(args) :
            (/\ i < j
             /\ IsDateToken(args[i])
             /\ IsDateToken(args[j])
             /\ Consumed(j - 1))
            => parser.raised = "Multiple dates"

---------------------------------------------------------------------------
(* C18 *)

\* the month string has the form YYYY-MM
IsYearMonth(s) == s = "2020-10"

\* parse failed with a utils.UsageError
RaisedUsageError == parser.raised \in UsageErrors

\* C18 as stated: with --dump, a token sequence in which a date token has
\* resolved to a date other than today fails with a usage error, wherever
\* the date token stands; and a --dump month string that does not have the
\* form YYYY-MM fails with a usage error.
C18_DumpWithDateFails ==
    (pc # "parse" /\ dumpArg # None) =>
        /\ (\E i \in 1..Len(args) :
               IsOtherDateToken(args[i]) /\ Consumed(i))
           => RaisedUsageError
        /\ ~IsYearMonth(dumpArg[1]) => RaisedUsageError

\* the part of C18 that the code keeps: when every token is consumed, a
\* date other than today with --dump, and a month string that strptime
\* rejects, end parse with a usage error
C18_DumpChecksWhenConsumed ==
    (pc # "parse" /\ dumpArg # None /\ Consumed(Len(args))) =>
        /\ (\E i \in 1..Len(args) : IsOtherDateToken(args[i]))
           => RaisedUsageError
        /\ StrptimeYM(dumpArg[1]) = None => RaisedUsageError

---------------------------------------------------------------------------
(* C19 *)

C19_WitnessConky ==
    /\ dumpArg = None
    /\ conkyArg
    /\ pc = "done"
    /\ exit = "0"
    /\ parser.entries # <<>>
    /\ Len(EntryQueries) = 1
    /\ Mutations = <<>>

---------------------------------------------------------------------------
(* C20 *)

\* the directive the grammar gives a token, first match first
DirectiveOf(tok) ==
    IF Len(tok) = 3 /\ tok[2] = "-" THEN "timespan"
    ELSE IF tok # <<>> /\ tok[1] = "+" THEN "tag"
    ELSE IF tok # <<>> /\ tok[1] = "@" THEN "project"
    ELSE IF tok # <<>> /\ tok[1] = "$" THEN "billable"
    ELSE IF tok # <<>> /\ tok[1] = "." THEN "date"
    ELSE IF tok # <<>> /\ tok[1] = "^" THEN "workspace"
    ELSE IF tok \in {<<"start">>, <<"stop">>} THEN "timespan"
    ELSE "description"

TokensOf(directive) ==
    SelectSeq(args, LAMBDA tok : DirectiveOf(tok) = directive)

\* the effect of the directives on the parser when every token is consumed
C20_Effects ==
    /\ Len(parser._timespans) = Len(TokensOf("timespan"))
    /\ \A k \in 1..Len(parser._timespans) :
          /\ parser._timespans[k][1]
               = SideTime(SpanSides(TokensOf("timespan")[k])[1])
          /\ parser._timespans[k][2]
               = SideTime(SpanSides(TokensOf("timespan")[k])[2])
    /\ parser.tags = [k \in 1..Len(TokensOf("tag")) |->
                         Rest(TokensOf("tag")[k])]
    /\ parser.project = IF TokensOf("project") = <<>> THEN None
                        ELSE Some(Rest(Last(TokensOf("project"))))
    /\ parser._billable = (TokensOf("billable") # <<>>)
    /\ parser.workspace = IF TokensOf("workspace") = <<>> THEN None
                          ELSE Some(Rest(TokensOf("workspace")[1]))
    /\ parser._description = JoinSpace(TokensOf("description"))

\* the sequence has a token that the directive of its kind rejects with the
\* given usage error
C20_Rejected ==
    /\ (\E i \in 1..Len(args) :
           /\ Consumed(i - 1)
           /\ DirectiveOf(args[i]) = "billable"
           /\ Rest(args[i]) # "")
       => parser.raised = "Invalid billable arg"
    /\ (\E i, j \in 1..Len(args) :
           /\ i < j
           /\ Consumed(j - 1)
           /\ DirectiveOf(args[i]) = "workspace"
           /\ DirectiveOf(args[j]) = "workspace")
       => parser.raised = "Multiple workspaces"

\* C20 as stated: every token is consumed by the one directive the grammar
\* gives it, so the token loop ends either with every token consumed, and
\* then the timespans, tags, project, billable flag, workspace and
\* space-joined description are those of the tokens of each kind in token
\* order, or with the usage error of the directive that rejected a token.
C20_EveryTokenDispatched ==
    pc # "parse" =>
        /\ Consumed(Len(args)) => C20_Effects
        /\ C20_Rejected
        /\ ~Consumed(Len(args)) => RaisedUsageError

\* the part of C20 that the code keeps: the effects when every token is
\* consumed, and the two usage errors
C20_DispatchWhenConsumed ==
    pc # "parse" =>
        /\ Consumed(Len(args)) => C20_Effects
        /\ C20_Rejected
        /\ (\A i \in 1..Len(args) : args[i] # <<>>) =>
              (~Consumed(Len(args)) => RaisedUsageError)

---------------------------------------------------------------------------
(* C21 *)

\* the usage errors of the checks parse makes after it has built the drafts
LateUsageErrors ==
    { "Unparseable month", "Description given without new entries",
      "Billable given without new entries",
      "Project given without new entries",
      "Tags given without new entries", "Date given with --dump" }

\* C21: when parse raised a usage error the run has ended with exit code 1
\* without any request, also when the error comes from the checks made
\* after the drafts were built: no draft of a failed parse is submitted.
C21_FailedParseIssuesNothing ==
    (pc # "parse" /\ RaisedUsageError) =>
        /\ pc = "done"
        /\ exit = "1"
        /\ error = parser.raised
        /\ requests = <<>>
        /\ committed = <<>>
        /\ client = ClientNone

\* C21 witness: a close-out with a tag: the draft was built, the cross-field
\* check raised, and the run ended without a request
C21_Witness ==
    /\ pc = "done"
    /\ parser.raised \in LateUsageErrors
    /\ Len(parser.entries) = 1
    /\ parser.entries[1].start = None
    /\ parser.tags # <<>>
    /\ requests = <<>>
    /\ exit = "1"

---------------------------------------------------------------------------
(* C22 *)

\* the date a date token resolves to
DateOfToken(tok) ==
    dateparser_parse(Rest(tok), Combine(Today, Midnight))[1].d

\* the day of an optional datetime is the given day, when there is one
OnDay(dt, day) == dt # None => dt[1].d = day

\* a timespan token with clock times only
IsClockSpan(tok) ==
    /\ timespan_re_fullmatch(tok)
    /\ "now" \notin {tok[1], tok[3]}

\* the sequence with the tokens at i and i + 1 exchanged
Swapped(toks, i) ==
    [k \in 1..Len(toks) |-> IF k = i THEN toks[i + 1]
                            ELSE IF k = i + 1 THEN toks[i]
                            ELSE toks[k]]

\* C22: after a successful parse of a sequence with a date token that
\* resolves to another day, every draft of a clock-time timespan token has
\* its start and its end on that day, whether the date token stands before
\* or after the timespan token; and the sequence with a date token moved
\* from behind a clock-time timespan token to before it parses to the same
\* drafts and the same target date.
C22_DateAppliesInAnyOrder ==
    ParseOk =>
        /\ \A i \in 1..(Len(args) - 1) :
              (IsClockSpan(args[i]) /\ IsDateToken(args[i + 1])) =>
                  parse(ParserInit, Swapped(args, i), dumpArg, conkyArg)
                      = parser
        /\ \A i \in 1..Len(args) :
            IsOtherDateToken(args[i]) =>
                /\ parser.date = DateOfToken(args[i])
                /\ \A k \in 1..Len(parser.entries) :
                      LET sides == SpanSides(SpanTokens[k]) IN
                      (IsClockSide(sides[1]) \/ IsClockSide(sides[2])) =>
                          /\ OnDay(parser.entries[k].start,
                                   DateOfToken(args[i]))
                          /\ OnDay(parser.entries[k].end,
                                   DateOfToken(args[i]))

\* C22 witness: a date token between two clock-time timespan tokens put
\* both drafts on its day
C22_Witness ==
    /\ ParseOk
    /\ Len(args) = 3
    /\ args[1] = <<"9:00", "-", "17:00">>
    /\ args[2] = <<".", "yesterday">>
    /\ args[3] = <<"17:00", "-", "9:00">>
    /\ Len(parser.entries) = 2
    /\ parser.entries[1].start[1].d = Today - 1
    /\ parser.entries[1] # parser.entries[2]
    /\ parser.entries[2].end[1].d = Today - 1

---------------------------------------------------------------------------
(* C23 *)

\* C23: the Error that stands for a connection failure is raised only
\* inside fetch_info; a connection failure of a submission or of a
\* time-entries GET ends the run as an exception main does not catch, not
\* with exit code 1, and the entries submitted before it stay committed.
C23_OnlyBootstrapConverted ==
    /\ error = "Error" => ~BootstrapDone /\ exit = "1"
    /\ (pc = "done" /\ BootstrapDone /\ exit = "1") =>
          error \in {"APIError", "Unknown tag", "Unknown project"}
    /\ error = "ConnectionError" =>
          /\ pc = "done"
          /\ exit = "uncaught"
          /\ BootstrapDone
          /\ IsEntryRequest(Last(requests))
          /\ committed = SubSeq(Mutations, 1, Len(committed))
          /\ Last(requests).verb = "GET" =>
                Len(committed) = Len(Mutations)
          /\ Last(requests).verb # "GET" =>
                Len(committed) = Len(Mutations) - 1

\* C23 witness: the connection failed at the third submission, after two
\* entries were committed
C23_Witness ==
    /\ pc = "done"
    /\ error = "ConnectionError"
    /\ exit = "uncaught"
    /\ Len(parser.entries) = 3
    /\ Len(Mutations) = 3
    /\ Len(committed) = 2
    /\ added = {1, 2}

\* C23 witness for retrieval: the connection failed at the time-entries GET
\* after the one entry was committed
C23_WitnessRetrieval ==
    /\ pc = "done"
    /\ error = "ConnectionError"
    /\ exit = "uncaught"
    /\ Len(committed) = 1
    /\ Last(requests).verb = "GET"

---------------------------------------------------------------------------
(* C24 *)

\* a timespan token of two clock times, the second earlier than the first
IsBackwardSpan(tok) ==
    /\ IsClockSpan(tok)
    /\ IsClockSide(tok[1])
    /\ IsClockSide(tok[3])
    /\ SideTime(tok[3])[1].t < SideTime(tok[1])[1].t

\* the date-and-time field of a timestamp of a payload
SentSeconds(ts) == ts[1][1].v

\* C24: every start and end a draft of parse has lies on the target date of
\* the invocation; a timespan token whose end time is earlier than its
\* start time is accepted wherever the tokens before it were, its draft
\* has both times on the target date with the end before the start, and
\* the draft is sent as a POST to the workspace's time-entries with the
\* start later than the end.
C24_OneDateNoRollover ==
    /\ \A i \in 1..Len(args) :
          (IsBackwardSpan(args[i]) /\ Consumed(i - 1)) => Consumed(i)
    /\ ParseOk =>
          /\ \A k \in 1..Len(parser.entries) :
                /\ OnDay(parser.entries[k].start, parser.date)
                /\ OnDay(parser.entries[k].end, parser.date)
                /\ IsBackwardSpan(SpanTokens[k]) =>
                      /\ TimeOf(parser.entries[k].start)
                            = SideTime(SpanTokens[k][1])
                      /\ TimeOf(parser.entries[k].end)
                            = SideTime(SpanTokens[k][3])
                      /\ Instant(parser.entries[k].end[1])
                            < Instant(parser.entries[k].start[1])
          /\ \A k \in 1..Len(Mutations) :
                IsBackwardSpan(SpanTokens[k]) =>
                    /\ Mutations[k].verb = "POST"
                    /\ Mutations[k].path = "workspaces/w/time-entries"
                    /\ Mutations[k].data.start # None
                    /\ Mutations[k].data.end # None
                    /\ SentSeconds(Mutations[k].data.end)
                          < SentSeconds(Mutations[k].data.start)

\* C24 witness: 17:00-9:00 with a date token for yesterday was parsed to a
\* draft that ends eight hours before it starts, both on yesterday, and the
\* server accepted its POST
C24_Witness ==
    /\ args = << <<"17:00", "-", "9:00">>, <<".", "yesterday">> >>
    /\ ParseOk
    /\ parser.date = Today - 1
    /\ Len(parser.entries) = 1
    /\ parser.entries[1].start[1].d = Today - 1
    /\ parser.entries[1].end[1].d = Today - 1
    /\ parser.entries[1].end[1].t = 9 * 3600
    /\ parser.entries[1].start[1].t = 17 * 3600
    /\ Len(committed) = 1
    /\ committed[1].verb = "POST"
    /\ added = {1}

====
